---- MODULE Spec2Model ----
(***************************************************************************)
(* Frame-presentation state machine of MVulkanRenderer                     *)
(* (src/Source/MVulkanRenderer.cpp): the swapchain and its per-image frame *)
(* resources, the synchronization ring, DrawFrame, RecreateSwapChain and   *)
(* CleanUp, running against an asynchronous GPU and a window system.       *)
(*                                                                         *)
(* The CPU thread is one sequential program; pc is its position.  The GPU  *)
(* (GpuComplete) and the window system (WindowResize, WindowOtherEvent)    *)
(* run concurrently with it.                                               *)
(***************************************************************************)
EXTENDS Integers, Sequences, FiniteSets, TLC

(* ---------------------------------------------------------------------- *)
(* Bounds of the model                                                    *)
(* ---------------------------------------------------------------------- *)

\* the framebuffer of the window is 0 x 0 (minimized) or d x d, d in 1..MaxDim
MaxDim == 1

\* the presentation engine hands back between 1 and MaxImages images
MaxImages == 3

\* number of DrawFrame calls the main loop makes in one session
MaxCalls == 3

\* the surface reports at most MaxModes presentation modes
MaxModes == 3

\* the surface reports at most MaxFormats surface formats
MaxFormats == 2

(* ---------------------------------------------------------------------- *)
(* Program constants                                                      *)
(* ---------------------------------------------------------------------- *)

\* MVulkanRenderer::kMaxFramesInFlight
kMaxFramesInFlight == 2

\* NumericalMax<TU32> (2^32 - 1), the "any size" sentinel of
\* currentExtent.width; the largest integer of the checker stands for it
NumericalMaxTU32 == 2147483647

Slots == 0 .. (kMaxFramesInFlight - 1)

Dim == 0 .. MaxDim

WindowSizes == { << d, d >> : d \in Dim }

\* VkResult values vkAcquireNextImageKHR can return; "ERROR" stands for every
\* result other than the three named ones (device lost, surface lost, ...)
AcquireResults == {"SUCCESS", "SUBOPTIMAL", "OUT_OF_DATE", "ERROR"}

\* VkResult values vkQueuePresentKHR can return, with the same reading
PresentResults == {"SUCCESS", "SUBOPTIMAL", "OUT_OF_DATE", "ERROR"}

VARIABLES
  pc,                        \* position of the CPU thread
  mCurrentRenderFrame,       \* ring slot index
  mFencesInFlight,           \* Seq(BOOLEAN): fence i is signaled
  mSemaphoreImageAvailable,  \* Seq of "unsignaled" | "signaled"
  mSemaphoreRenderFinished,  \* Seq of "unsignaled" | "signaled" | "waited"
  ringAlive,                 \* the ring's objects exist (not destroyed)
  mIsWindowResizeDirty,      \* resize dirty flag
  mSwapChain,                \* handle value of the swapchain (1 or 2)
  mSwapChainExtent,          \* <<width, height>> of the swapchain
  mSwapChainImages,          \* Seq of image handles <<chain, index>>
  mSwapChainImageViews,      \* Seq: the image each view looks at
  mSwapChainFrameBuffers,    \* Seq: the image each framebuffer wraps
  mCommandBuffers,           \* Seq: the image each recording renders to
  liveSwap,                  \* which swapchain-derived objects exist
  gpuQueue,                  \* submissions whose completion the CPU has not observed
  imageIndex,                \* DrawFrame's local imageIndex
  rcSize,                    \* RecreateSwapChain's locals <<width, height>>
  window,                    \* live framebuffer size of the window
  pending,                   \* window events not yet processed
  call,                      \* what the current / last DrawFrame call did
  nCalls,                    \* DrawFrame calls made so far
  nFrames,                   \* DrawFrame calls that completed a frame
  swapChainDetails,          \* CreateSwapChain's local: what the surface supports
  createInfo,                \* CreateSwapChain's local VkSwapchainCreateInfoKHR
  sUniformBufferObjects,     \* Seq of "live" | "destroyed": the uniform buffers
                             \* (with their sUniformBufferMemories)
  mDescriptorSets            \* Seq: the uniform buffer each descriptor set points at

vars == << pc, mCurrentRenderFrame, mFencesInFlight, mSemaphoreImageAvailable,
           mSemaphoreRenderFinished, ringAlive, mIsWindowResizeDirty,
           mSwapChain, mSwapChainExtent, mSwapChainImages,
           mSwapChainImageViews, mSwapChainFrameBuffers, mCommandBuffers,
           liveSwap, gpuQueue, imageIndex, rcSize, window,
           pending, call, nCalls, nFrames, swapChainDetails, createInfo,
           sUniformBufferObjects, mDescriptorSets >>

ringVars == << mFencesInFlight, mSemaphoreImageAvailable,
               mSemaphoreRenderFinished, ringAlive >>

swapVars == << mSwapChain, mSwapChainExtent, mSwapChainImages,
               mSwapChainImageViews, mSwapChainFrameBuffers, mCommandBuffers,
               liveSwap >>

winVars == << window, pending >>

countVars == << nCalls, nFrames >>

createVars == << swapChainDetails, createInfo >>

uniformVars == << sUniformBufferObjects, mDescriptorSets >>


(* ---------------------------------------------------------------------- *)
(* Pure helpers                                                           *)
(* ---------------------------------------------------------------------- *)

\* a clamp that lets every value through
ClampNone(v, lo, hi) == v

\* std::clamp(v, lo, hi)
Clamp(v, lo, hi) == IF v < lo THEN lo ELSE IF hi < v THEN hi ELSE v

\* What vkGetPhysicalDeviceSurfaceCapabilitiesKHR can report for a window whose
\* framebuffer is win: either a definite current extent (the window's size,
\* with min = max = current) or the "any size" sentinel with a [min, max]
\* range; and the image count limits (maxImageCount 0 = no upper limit).
SurfaceCapabilities(win) ==
  { [ currentExtent  |-> IF definite THEN win
                         ELSE << NumericalMaxTU32, NumericalMaxTU32 >>,
      minImageExtent |-> IF definite THEN win ELSE << lo, lo >>,
      maxImageExtent |-> IF definite THEN win ELSE << MaxDim, MaxDim >>,
      minImageCount  |-> mn,
      maxImageCount  |-> mx ] :
      definite \in BOOLEAN, lo \in {0, 1},
      mn \in 1 .. MaxImages, mx \in 0 .. MaxImages }

ValidCapabilities(win) ==
  { c \in SurfaceCapabilities(win) :
      c.maxImageCount = 0 \/ c.minImageCount <= c.maxImageCount }

\* a choice that always derives the extent from the window
ChooseSwapResolutionFromWindow(iCapabiliteis, fb) ==
  << Clamp(fb[1], iCapabiliteis.minImageExtent[1],
           iCapabiliteis.maxImageExtent[1]),
     Clamp(fb[2], iCapabiliteis.minImageExtent[2],
           iCapabiliteis.maxImageExtent[2]) >>

\* MVulkanRenderer::ChooseSwapResolution; fb is what glfwGetFramebufferSize
\* returns at the time of the call
ChooseSwapResolution(iCapabiliteis, fb) ==
  IF iCapabiliteis.currentExtent[1] # NumericalMaxTU32
  THEN iCapabiliteis.currentExtent
  ELSE << Clamp(fb[1], iCapabiliteis.minImageExtent[1],
                iCapabiliteis.maxImageExtent[1]),
          Clamp(fb[2], iCapabiliteis.minImageExtent[2],
                iCapabiliteis.maxImageExtent[2]) >>

\* an image count that is never clamped
RequestedImageCountUnclamped(caps) == caps.minImageCount + 1

\* imageCount of MVulkanRenderer::CreateSwapChain
RequestedImageCount(caps) ==
  IF caps.maxImageCount > 0
  THEN Clamp(caps.minImageCount + 1, caps.minImageCount, caps.maxImageCount)
  ELSE caps.minImageCount + 1

\* VkPresentModeKHR values
PresentModes == {"FIFO", "MAILBOX", "IMMEDIATE"}

\* VkFormat and VkColorSpaceKHR values
Formats == {"UNDEFINED", "B8G8R8A8_UNORM", "R8G8B8A8_UNORM"}

ColorSpaces == {"SRGB_NONLINEAR", "EXTENDED_SRGB_LINEAR"}

\* VkSurfaceFormatKHR values
SurfaceFormats == [ format : Formats, colorSpace : ColorSpaces ]

\* the pair ChoooseSwapSurfaceFormat prefers
PreferredSurfaceFormat ==
  [ format |-> "B8G8R8A8_UNORM", colorSpace |-> "SRGB_NONLINEAR" ]

\* the lists of at most n entries of S, of at least lo entries
ListsOf(S, lo, n) == UNION { [ 1 .. k -> S ] : k \in lo .. n }

\* a surface format list in which only the first entry is looked at
ChoooseSwapSurfaceFormatFirst(iAvailableFormatList) == iAvailableFormatList[1]

\* MVulkanRenderer::ChoooseSwapSurfaceFormat, for a non-empty list
ChoooseSwapSurfaceFormat(iAvailableFormatList) ==
  IF Len(iAvailableFormatList) = 1
     /\ iAvailableFormatList[1].format = "UNDEFINED"
  THEN PreferredSurfaceFormat
  ELSE LET hits == { i \in DOMAIN iAvailableFormatList :
                       /\ iAvailableFormatList[i].format = "B8G8R8A8_UNORM"
                       /\ iAvailableFormatList[i].colorSpace = "SRGB_NONLINEAR" }
       IN  IF hits # {}
           THEN iAvailableFormatList[CHOOSE i \in hits : \A j \in hits : i <= j]
           ELSE iAvailableFormatList[1]

\* MVulkanRenderer::ChooseSwapPresentMode: the loop returns at the first
\* entry that is MAILBOX or IMMEDIATE; FIFO when it finds none
RECURSIVE ChooseSwapPresentMode(_)
ChooseSwapPresentMode(iAvailablePresentModeList) ==
  IF iAvailablePresentModeList = << >> THEN "FIFO"
  ELSE IF Head(iAvailablePresentModeList) = "MAILBOX"
       THEN Head(iAvailablePresentModeList)
       ELSE IF Head(iAvailablePresentModeList) = "IMMEDIATE"
            THEN Head(iAvailablePresentModeList)
            ELSE ChooseSwapPresentMode(Tail(iAvailablePresentModeList))

\* the VkSurfaceCapabilitiesKHR reports a surface can give: the image count
\* limits (maxImageCount 0 = no upper limit), minImageExtent <= maxImageExtent,
\* and a current extent that is the "any size" sentinel or lies between them
CapabilityReports ==
  { [ currentExtent  |-> cur,
      minImageExtent |-> << lo, lo >>,
      maxImageExtent |-> << hi, hi >>,
      minImageCount  |-> mn,
      maxImageCount  |-> mx ] :
      cur \in { << d, d >> : d \in Dim \cup {NumericalMaxTU32} },
      lo \in Dim, hi \in Dim,
      mn \in 1 .. MaxImages, mx \in 0 .. MaxImages }

ValidReports ==
  { c \in CapabilityReports :
      /\ c.maxImageCount = 0 \/ c.minImageCount <= c.maxImageCount
      /\ c.minImageExtent[1] <= c.maxImageExtent[1]
      /\ c.currentExtent[1] # NumericalMaxTU32 =>
            /\ c.minImageExtent[1] <= c.currentExtent[1]
            /\ c.currentExtent[1] <= c.maxImageExtent[1] }

\* what QuerySwapChainSupport can return, with the framebuffer size the
\* window has at that time
SupportDetails ==
  [ mCapabilities : ValidReports,
    mFormats      : ListsOf(SurfaceFormats, 1, MaxFormats),
    mPresentModes : ListsOf(PresentModes, 0, MaxModes),
    framebuffer   : WindowSizes ]

\* CreateSwapChain has not run
NoDetails == [ queried |-> FALSE ]

NoCreateInfo == [ filled |-> FALSE ]

\* MVulkanRenderer::GetSwapChainImageHandles: the n images of chain handle h
GetSwapChainImageHandles(h, n) == [ i \in 1 .. n |-> << h, i >> ]

\* MVulkanRenderer::CreateSwapChainImageViews: one view per image, same index
CreateSwapChainImageViews(images) ==
  [ imageId \in 1 .. Len(images) |-> images[imageId] ]

\* MVulkanRenderer::CreateFrameBuffer: one framebuffer per view, same index
CreateFrameBuffer(views) == [ i \in 1 .. Len(views) |-> views[i] ]

\* recordings that all render into the first framebuffer
CreateCommandBuffersFirstOnly(framebuffers) ==
  [ i \in 1 .. Len(framebuffers) |-> framebuffers[1] ]

\* MVulkanRenderer::CreateCommandBuffers: one recording per framebuffer
CreateCommandBuffers(framebuffers) ==
  [ i \in 1 .. Len(framebuffers) |-> framebuffers[i] ]

\* MVulkanRenderer::CreateUniformBuffers: one uniform buffer (and memory) per
\* swapchain image
CreateUniformBuffers(images) == [ i \in 1 .. Len(images) |-> "live" ]

\* MVulkanRenderer::CreateDescriptorSets: one descriptor set per swapchain
\* image, set i pointing at sUniformBufferObjects[i]
CreateDescriptorSets(images) == [ i \in 1 .. Len(images) |-> i ]

\* what a step whose behaviour is undefined (an index past the end of a
\* std::vector, a destroy of a handle already destroyed) can do: go on with
\* whatever it read, or end the process
UndefinedOutcomes(undefined) ==
  IF undefined THEN {"continue", "crash"} ELSE {"continue"}

\* an advance whose modulus is off by one
AdvanceSlotWrongModulus(current) == (current + 1) % (kMaxFramesInFlight + 1)

\* the advance at the end of MVulkanRenderer::DrawFrame
AdvanceSlot(current) == (current + 1) % kMaxFramesInFlight

\* a branch condition that lets a suboptimal acquire through
IsStaleNoSuboptimal(result, dirty) == result = "OUT_OF_DATE" \/ dirty = TRUE

\* the branch condition after vkAcquireNextImageKHR in DrawFrame
IsStale(result, dirty) ==
  result = "OUT_OF_DATE" \/ result = "SUBOPTIMAL" \/ dirty = TRUE

\* a DrawFrame that does not wait for the fence
FenceReadyNoWait(fences, slot) == TRUE

\* vkWaitForFences on one fence with an infinite timeout returns when it is signaled
FenceReady(fences, slot) == fences[slot + 1]

\* a DrawFrame that forgets vkResetFences
ResetFenceMissing(fences, slot) == fences

\* vkResetFences on the fence of slot
ResetFence(fences, slot) == [ fences EXCEPT ![slot + 1] = FALSE ]

\* the loop condition of RecreateSwapChain
IsZeroSized(size) == size[1] = 0 \/ size[2] = 0

\* a vkDeviceWaitIdle that returns at once
DeviceIdleNoWait(queue) == TRUE

\* vkDeviceWaitIdle returns when no submission is executing
DeviceIdle(queue) == \A i \in DOMAIN queue : queue[i].done

\* submissions of queue still executing on the GPU
Executing(queue) == { i \in DOMAIN queue : ~ queue[i].done }

\* the queue once the CPU has observed the completion of the finished
\* submissions of the given slots
RECURSIVE Observe(_, _)
Observe(queue, slots) ==
  IF queue = << >> THEN << >>
  ELSE IF Head(queue).done /\ Head(queue).slot \in slots
       THEN Observe(Tail(queue), slots)
       ELSE << Head(queue) >> \o Observe(Tail(queue), slots)

\* a resize callback that leaves the flag alone
AfterCallbacksLost(dirty, events) == dirty

\* glfwPollEvents / glfwWaitEvents run the callbacks of the pending events:
\* CbGLFWFrameBufferResize sets the dirty flag
AfterCallbacks(dirty, events) == dirty \/ events = "resize"

NewCall(current, previous) ==
  [ entry |-> current, prev |-> previous, result |-> "NONE", dirty |-> FALSE,
    stale |-> FALSE, submitted |-> FALSE, recreated |-> 0,
    createExtent |-> << >>, present |-> "NONE",
    presentImage |-> -1, presentWait |-> -1, uniformWritten |-> -1 ]

\* how a DrawFrame call that returns to its caller ended: "frame" (a full
\* frame), "unpresented" (a full frame whose present returned an error), "ood"
\* (aborted for an out-of-date acquire alone) or "stale" (aborted for another
\* stale condition)
Outcome(c) ==
  IF c.stale
  THEN (IF c.result = "OUT_OF_DATE" /\ ~ c.dirty THEN "ood" ELSE "stale")
  ELSE (IF c.present \in {"OUT_OF_DATE", "ERROR"} THEN "unpresented"
        ELSE "frame")

(* ---------------------------------------------------------------------- *)
(* Initial state: pfInitialize has completed                              *)
(* ---------------------------------------------------------------------- *)

\* fences created without VK_FENCE_CREATE_SIGNALED_BIT
CreateDefaultFencesUnsignaled == [ i \in 1 .. kMaxFramesInFlight |-> FALSE ]

\* the fences of MVulkanRenderer::CreateDefaultSemaphores: one per slot,
\* created with VK_FENCE_CREATE_SIGNALED_BIT
CreateDefaultFences == [ i \in 1 .. kMaxFramesInFlight |-> TRUE ]

Init ==
  /\ pc = "idle"
  /\ mCurrentRenderFrame = 0
  /\ mFencesInFlight = CreateDefaultFences
  /\ mSemaphoreImageAvailable = [ i \in 1 .. kMaxFramesInFlight |-> "unsignaled" ]
  /\ mSemaphoreRenderFinished = [ i \in 1 .. kMaxFramesInFlight |-> "unsignaled" ]
  /\ ringAlive = TRUE
  /\ mIsWindowResizeDirty = FALSE
  /\ window \in { s \in WindowSizes : ~ IsZeroSized(s) }
  /\ pending = "none"
  /\ mSwapChain = 1
  /\ \E caps \in ValidCapabilities(window) :
       /\ mSwapChainExtent = ChooseSwapResolution(caps, window)
       /\ \E n \in RequestedImageCount(caps) .. MaxImages :
            mSwapChainImages = GetSwapChainImageHandles(1, n)
  /\ ~ IsZeroSized(mSwapChainExtent)
  /\ mSwapChainImageViews = CreateSwapChainImageViews(mSwapChainImages)
  /\ mSwapChainFrameBuffers = CreateFrameBuffer(mSwapChainImageViews)
  /\ mCommandBuffers = CreateCommandBuffers(mSwapChainFrameBuffers)
  /\ liveSwap = {"chain", "views", "framebuffers", "commands"}
  /\ gpuQueue = << >>
  /\ imageIndex = 0
  /\ rcSize = << 0, 0 >>
  /\ call = NewCall(0, "none")
  /\ nCalls = 0
  /\ nFrames = 0
  /\ swapChainDetails = NoDetails
  /\ createInfo = NoCreateInfo
  /\ sUniformBufferObjects = CreateUniformBuffers(mSwapChainImages)
  /\ mDescriptorSets = CreateDescriptorSets(mSwapChainImages)


(* ---------------------------------------------------------------------- *)
(* The main loop (the caller of the renderer)                             *)
(* ---------------------------------------------------------------------- *)

\* the main loop calls glfwPollEvents between two frames
MainLoopPollEvents ==
  /\ pc = "idle"
  /\ pending # "none"
  /\ mIsWindowResizeDirty' = AfterCallbacks(mIsWindowResizeDirty, pending)
  /\ pending' = "none"
  /\ UNCHANGED << createVars, uniformVars, pc, mCurrentRenderFrame, ringVars, swapVars,
                  gpuQueue, imageIndex, rcSize, window, call, countVars >>

\* the main loop calls DrawFrame
MainLoopDrawFrame ==
  /\ pc = "idle"
  /\ nCalls < MaxCalls
  /\ nCalls' = nCalls + 1
  /\ pc' = "df_wait"
  /\ UNCHANGED << createVars, uniformVars, mCurrentRenderFrame, ringVars, mIsWindowResizeDirty, swapVars, gpuQueue, imageIndex, rcSize, winVars, call,
                  nFrames >>

\* the session ends, normally or after a fatal error: pfRelease is called
MainLoopRelease ==
  /\ pc \in {"idle", "fatal"}
  /\ pc' = "cu_idle"
  /\ UNCHANGED << createVars, uniformVars, mCurrentRenderFrame, ringVars, mIsWindowResizeDirty, swapVars, gpuQueue, imageIndex, rcSize, winVars, call,
                  countVars >>

(* ---------------------------------------------------------------------- *)
(* MVulkanRenderer::DrawFrame                                             *)
(* ---------------------------------------------------------------------- *)

\* vkWaitForFences on the current slot's fence: the CPU has now observed the
\* completion of the finished submissions that signal it
DrawFrameWait ==
  /\ pc = "df_wait"
  /\ FenceReady(mFencesInFlight, mCurrentRenderFrame)
  /\ gpuQueue' = Observe(gpuQueue, {mCurrentRenderFrame})
  /\ pc' = "df_acquire"
  /\ UNCHANGED << createVars, uniformVars, mCurrentRenderFrame, ringVars, mIsWindowResizeDirty, swapVars, imageIndex, rcSize, winVars, call, countVars >>

\* the semaphore handed to vkAcquireNextImageKHR is signaled when the call
\* returns an image (success or suboptimal)
AcquireSignal(sems, slot, result) ==
  IF result \in {"SUCCESS", "SUBOPTIMAL"}
  THEN [ sems EXCEPT ![slot + 1] = "signaled" ] ELSE sems

\* the image index vkAcquireNextImageKHR writes: any image of the chain when it
\* returns one, otherwise the local is left as it was
AcquirableIndices(result) ==
  IF result \in {"SUCCESS", "SUBOPTIMAL"}
  THEN 0 .. (Len(mSwapChainImages) - 1) ELSE {imageIndex}

\* a stale branch taken after the fence of the slot was reset
DrawFrameAcquireStaleResetsFence ==
  /\ pc = "df_acquire"
  /\ \E result \in AcquireResults : \E index \in AcquirableIndices(result) :
       /\ IsStale(result, mIsWindowResizeDirty)
       /\ mSemaphoreImageAvailable' =
            AcquireSignal(mSemaphoreImageAvailable, mCurrentRenderFrame, result)
       /\ imageIndex' = index
       /\ call' = [ call EXCEPT !.result = result,
                                !.dirty = mIsWindowResizeDirty,
                                !.stale = TRUE ]
  /\ mFencesInFlight' = ResetFence(mFencesInFlight, mCurrentRenderFrame)
  /\ mIsWindowResizeDirty' = FALSE
  /\ rcSize' = << 0, 0 >>
  /\ pc' = "rc_size"
  /\ UNCHANGED << createVars, uniformVars, mCurrentRenderFrame, mSemaphoreRenderFinished,
                  ringAlive, swapVars, gpuQueue, winVars,
                  countVars >>

\* vkAcquireNextImageKHR, then the stale branch: clear the flag, enter
\* RecreateSwapChain
DrawFrameAcquireStale ==
  /\ pc = "df_acquire"
  /\ \E result \in AcquireResults : \E index \in AcquirableIndices(result) :
       /\ IsStale(result, mIsWindowResizeDirty)
       /\ mSemaphoreImageAvailable' =
            AcquireSignal(mSemaphoreImageAvailable, mCurrentRenderFrame, result)
       /\ imageIndex' = index
       /\ call' = [ call EXCEPT !.result = result,
                                !.dirty = mIsWindowResizeDirty,
                                !.stale = TRUE ]
  /\ mIsWindowResizeDirty' = FALSE
  /\ rcSize' = << 0, 0 >>
  /\ pc' = "rc_size"
  /\ UNCHANGED << createVars, uniformVars, mCurrentRenderFrame, mFencesInFlight, mSemaphoreRenderFinished,
                  ringAlive, swapVars, gpuQueue, winVars,
                  countVars >>

\* vkAcquireNextImageKHR, then the throwing branch
DrawFrameAcquireFatal ==
  /\ pc = "df_acquire"
  /\ \E result \in AcquireResults : \E index \in AcquirableIndices(result) :
       /\ ~ IsStale(result, mIsWindowResizeDirty)
       /\ result # "SUCCESS"
       /\ mSemaphoreImageAvailable' =
            AcquireSignal(mSemaphoreImageAvailable, mCurrentRenderFrame, result)
       /\ imageIndex' = index
       /\ call' = [ call EXCEPT !.result = result,
                                !.dirty = mIsWindowResizeDirty ]
  /\ pc' = "fatal"
  /\ UNCHANGED << createVars, uniformVars, mCurrentRenderFrame, mFencesInFlight, mSemaphoreRenderFinished,
                  ringAlive, mIsWindowResizeDirty, swapVars,
                  gpuQueue, rcSize, winVars, countVars >>

\* MVulkanRenderer::UpdateUniformBuffer: the entry of sUniformBufferMemories
\* the CPU maps and writes
UpdateUniformBuffer(iCurrentImageIndex) == iCurrentImageIndex

\* the uniform buffer a submission reads while it executes: recording i binds
\* mDescriptorSets[i], which CreateDescriptorSets points at
\* sUniformBufferObjects[i]
UniformBufferRead(submission) == submission.image

\* vkAcquireNextImageKHR succeeded and the flag is clear: UpdateUniformBuffer
\* writes the uniform buffer of the acquired index
DrawFrameAcquireOk ==
  /\ pc = "df_acquire"
  /\ \E result \in AcquireResults : \E index \in AcquirableIndices(result) :
       /\ ~ IsStale(result, mIsWindowResizeDirty)
       /\ result = "SUCCESS"
       /\ mSemaphoreImageAvailable' =
            AcquireSignal(mSemaphoreImageAvailable, mCurrentRenderFrame, result)
       /\ imageIndex' = index
       /\ call' = [ call EXCEPT !.result = result,
                                !.dirty = mIsWindowResizeDirty,
                                !.uniformWritten = UpdateUniformBuffer(index) ]
       /\ \E ub \in UndefinedOutcomes(
                       UpdateUniformBuffer(index) + 1 > Len(sUniformBufferObjects)) :
            pc' = IF ub = "crash" THEN "crashed" ELSE "df_submit"
  /\ UNCHANGED << createVars, uniformVars, mCurrentRenderFrame, mFencesInFlight, mSemaphoreRenderFinished,
                  ringAlive, mIsWindowResizeDirty, swapVars,
                  gpuQueue, rcSize, winVars, countVars >>

\* a submission that signals the renderFinished semaphore of the other slot
SubmissionSignalsOtherSlot(slot, index) ==
  [ slot |-> slot, image |-> index, target |-> mCommandBuffers[index + 1],
    wait |-> slot, waitStage |-> "COLOR_ATTACHMENT_OUTPUT",
    signal |-> (slot + 1) % kMaxFramesInFlight, done |-> FALSE ]

\* the VkSubmitInfo DrawFrame hands to vkQueueSubmit with the fence of the
\* slot: the recording mCommandBuffers[imageIndex], pWaitSemaphores =
\* mSemaphoreImageAvailable[slot] at the color attachment output stage,
\* pSignalSemaphores = mSemaphoreRenderFinished[slot]
Submission(slot, index) ==
  [ slot |-> slot, image |-> index, target |-> mCommandBuffers[index + 1],
    wait |-> slot, waitStage |-> "COLOR_ATTACHMENT_OUTPUT",
    signal |-> slot, done |-> FALSE ]

\* a DrawFrame that goes on to present after a rejected submission
DrawFrameSubmitIgnoresFailure ==
  /\ pc = "df_submit"
  /\ mFencesInFlight' = ResetFence(mFencesInFlight, mCurrentRenderFrame)
  /\ \E accepted \in BOOLEAN :
       IF accepted
       THEN /\ gpuQueue' = Append(gpuQueue,
                             Submission(mCurrentRenderFrame, imageIndex))
            /\ call' = [ call EXCEPT !.submitted = TRUE ]
       ELSE UNCHANGED << gpuQueue, call >>
  /\ pc' = "df_present"
  /\ UNCHANGED << createVars, uniformVars, mCurrentRenderFrame, mSemaphoreImageAvailable,
                  mSemaphoreRenderFinished, ringAlive, mIsWindowResizeDirty,
                  swapVars, imageIndex, rcSize, winVars,
                  countVars >>

\* vkResetFences, then vkQueueSubmit; a rejected submission throws
DrawFrameSubmit ==
  /\ pc = "df_submit"
  /\ mFencesInFlight' = ResetFence(mFencesInFlight, mCurrentRenderFrame)
  /\ \E accepted \in BOOLEAN :
       IF accepted
       THEN /\ gpuQueue' = Append(gpuQueue,
                             Submission(mCurrentRenderFrame, imageIndex))
            /\ call' = [ call EXCEPT !.submitted = TRUE ]
            /\ pc' = "df_present"
       ELSE /\ pc' = "fatal"
            /\ UNCHANGED << gpuQueue, call >>
  /\ UNCHANGED << createVars, uniformVars, mCurrentRenderFrame, mSemaphoreImageAvailable,
                  mSemaphoreRenderFinished, ringAlive, mIsWindowResizeDirty,
                  swapVars, imageIndex, rcSize, winVars,
                  countVars >>

\* the present request waits on the slot's renderFinished semaphore
PresentWait(sems, slot) ==
  [ sems EXCEPT ![slot + 1] =
      IF sems[slot + 1] = "signaled" THEN "unsignaled" ELSE "waited" ]

\* vkQueuePresentKHR: the request waits on renderFinished; its result is not
\* stored by DrawFrame (call.present keeps it for the properties)
DrawFramePresent ==
  /\ pc = "df_present"
  /\ mSemaphoreRenderFinished' =
       PresentWait(mSemaphoreRenderFinished, mCurrentRenderFrame)
  /\ \E result \in PresentResults :
       call' = [ call EXCEPT !.present = result,
                             !.presentImage = imageIndex,
                             !.presentWait = mCurrentRenderFrame ]
  /\ pc' = "df_advance"
  /\ UNCHANGED << createVars, uniformVars, mCurrentRenderFrame, mFencesInFlight,
                  mSemaphoreImageAvailable, ringAlive, mIsWindowResizeDirty,
                  swapVars, gpuQueue, imageIndex, rcSize, winVars, countVars >>

\* a DrawFrame that throws when the present returned an error
DrawFrameAdvanceChecksPresent ==
  /\ pc = "df_advance"
  /\ IF call.present \in {"OUT_OF_DATE", "ERROR"}
     THEN /\ pc' = "fatal"
          /\ UNCHANGED << mCurrentRenderFrame, call, nFrames, imageIndex >>
     ELSE /\ mCurrentRenderFrame' = AdvanceSlot(mCurrentRenderFrame)
          /\ call' = NewCall(mCurrentRenderFrame', Outcome(call))
          /\ nFrames' = nFrames + 1
          /\ imageIndex' = 0
          /\ pc' = "idle"
  /\ UNCHANGED << createVars, uniformVars, ringVars, mIsWindowResizeDirty, swapVars, gpuQueue,
                  rcSize, winVars, nCalls >>

\* the slot advance at the end of DrawFrame, and its return
DrawFrameAdvance ==
  /\ pc = "df_advance"
  /\ mCurrentRenderFrame' = AdvanceSlot(mCurrentRenderFrame)
  /\ call' = NewCall(mCurrentRenderFrame', Outcome(call))
  /\ nFrames' = nFrames + 1
  /\ imageIndex' = 0
  /\ pc' = "idle"
  /\ UNCHANGED << createVars, uniformVars, ringVars, mIsWindowResizeDirty, swapVars, gpuQueue,
                  rcSize, winVars, nCalls >>


(* ---------------------------------------------------------------------- *)
(* MVulkanRenderer::RecreateSwapChain                                     *)
(* ---------------------------------------------------------------------- *)

\* glfwGetFramebufferSize(&width, &height) in the loop body
RecreateGetSize ==
  /\ pc = "rc_size"
  /\ rcSize' = window
  /\ pc' = "rc_events"
  /\ UNCHANGED << createVars, uniformVars, mCurrentRenderFrame, ringVars, mIsWindowResizeDirty, swapVars, gpuQueue, imageIndex, winVars, call,
                  countVars >>

\* a loop exit that goes straight to CleanupSwapChain, with no vkDeviceWaitIdle
RecreateWaitEventsSkipsDrain ==
  /\ pc = "rc_events"
  /\ pending # "none"
  /\ mIsWindowResizeDirty' = AfterCallbacks(mIsWindowResizeDirty, pending)
  /\ pending' = "none"
  /\ pc' = IF IsZeroSized(rcSize) THEN "rc_size" ELSE "rc_cleanup"
  /\ UNCHANGED << createVars, uniformVars, mCurrentRenderFrame, ringVars, swapVars,
                  gpuQueue, imageIndex, rcSize, window, call, countVars >>

\* glfwWaitEvents() in the loop body: sleeps until an event is pending, runs
\* the callbacks; then the loop condition is tested on width and height
RecreateWaitEvents ==
  /\ pc = "rc_events"
  /\ pending # "none"
  /\ mIsWindowResizeDirty' = AfterCallbacks(mIsWindowResizeDirty, pending)
  /\ pending' = "none"
  /\ pc' = IF IsZeroSized(rcSize) THEN "rc_size" ELSE "rc_idle"
  /\ UNCHANGED << createVars, uniformVars, mCurrentRenderFrame, ringVars, swapVars,
                  gpuQueue, imageIndex, rcSize, window, call, countVars >>

\* vkDeviceWaitIdle: every submission has completed and the CPU knows it
RecreateWaitIdle ==
  /\ pc = "rc_idle"
  /\ DeviceIdle(gpuQueue)
  /\ gpuQueue' = Observe(gpuQueue, Slots)
  /\ pc' = "rc_cleanup"
  /\ UNCHANGED << createVars, uniformVars, mCurrentRenderFrame, ringVars, mIsWindowResizeDirty, swapVars, imageIndex, rcSize, winVars, call, countVars >>

\* MVulkanRenderer::CleanupSwapChain: framebuffers, command buffers, image
\* views and the swapchain are destroyed; the vectors keep the dead handles
CleanupSwapChain(live) ==
  live \ {"framebuffers", "commands", "views", "chain"}

\* a cleanup that also destroys the fences and semaphores of the ring
RecreateCleanupWithRing ==
  /\ pc = "rc_cleanup"
  /\ liveSwap' = CleanupSwapChain(liveSwap)
  /\ ringAlive' = FALSE
  /\ pc' = "rc_create"
  /\ UNCHANGED << createVars, uniformVars, mCurrentRenderFrame, mFencesInFlight,
                  mSemaphoreImageAvailable, mSemaphoreRenderFinished,
                  mIsWindowResizeDirty, mSwapChain, mSwapChainExtent,
                  mSwapChainImages, mSwapChainImageViews,
                  mSwapChainFrameBuffers, mCommandBuffers, gpuQueue,
                  imageIndex, rcSize, winVars, call, countVars >>

\* CleanupSwapChain as RecreateSwapChain calls it
RecreateCleanup ==
  /\ pc = "rc_cleanup"
  /\ liveSwap' = CleanupSwapChain(liveSwap)
  /\ pc' = "rc_create"
  /\ UNCHANGED << createVars, uniformVars, mCurrentRenderFrame, ringVars, mIsWindowResizeDirty,
                  mSwapChain, mSwapChainExtent, mSwapChainImages,
                  mSwapChainImageViews, mSwapChainFrameBuffers, mCommandBuffers, gpuQueue, imageIndex, rcSize, winVars, call,
                  countVars >>

\* the creation steps of RecreateSwapChain, in order; each can throw
CreateStages == << "swapchain", "views", "framebuffers", "commands" >>

\* the stages completed when the creation throws at failAt ("none": no throw)
StagesDone(failAt) ==
  { CreateStages[i] : i \in { j \in 1 .. Len(CreateStages) :
      \A k \in 1 .. j : CreateStages[k] # failAt } }

\* a RecreateSwapChain whose creation failures are swallowed
RecreateReturnSwallows(failAt) == "idle"

\* where control goes after the creation steps: back to the caller of
\* DrawFrame, or up the stack with the std::runtime_error of the failed step
RecreateReturn(failAt) == IF failAt = "none" THEN "idle" ELSE "fatal"

\* CreateSwapChain ... CreateCommandBuffers, then the return to DrawFrame,
\* which returns to its caller
RecreateCreate ==
  /\ pc = "rc_create"
  /\ \E caps \in ValidCapabilities(window) :
     \E failAt \in {"none", "swapchain", "views", "framebuffers", "commands"} :
     \E n \in RequestedImageCount(caps) .. MaxImages :
       LET extent == ChooseSwapResolution(caps, window)
           chain  == 3 - mSwapChain
           images == GetSwapChainImageHandles(chain, n)
           views  == CreateSwapChainImageViews(images)
           fbs    == CreateFrameBuffer(views)
           cmds   == CreateCommandBuffers(fbs)
           done   == StagesDone(failAt)
       IN  /\ call' = IF failAt = "none"
                      THEN NewCall(mCurrentRenderFrame, Outcome(call))
                      ELSE [ call EXCEPT !.recreated = @ + 1,
                                         !.createExtent = extent ]
           /\ mSwapChain' = IF "swapchain" \in done THEN chain ELSE mSwapChain
           /\ mSwapChainExtent' =
                IF "swapchain" \in done THEN extent ELSE mSwapChainExtent
           /\ mSwapChainImages' =
                IF "swapchain" \in done THEN images ELSE mSwapChainImages
           /\ mSwapChainImageViews' =
                IF "swapchain" \in done THEN views ELSE mSwapChainImageViews
           /\ mSwapChainFrameBuffers' =
                IF "views" \in done THEN fbs ELSE mSwapChainFrameBuffers
           /\ mCommandBuffers' =
                IF "framebuffers" \in done THEN cmds ELSE mCommandBuffers
           /\ liveSwap' = liveSwap \cup
                { IF st = "swapchain" THEN "chain" ELSE st : st \in done }
           /\ \E ub \in UndefinedOutcomes("framebuffers" \in done
                                           /\ Len(fbs) > Len(mDescriptorSets)) :
                pc' = IF ub = "crash" THEN "crashed" ELSE RecreateReturn(failAt)
  /\ rcSize' = << 0, 0 >>
  /\ imageIndex' = 0
  /\ UNCHANGED << createVars, uniformVars, mCurrentRenderFrame, ringVars, mIsWindowResizeDirty, gpuQueue, winVars, countVars >>

(* ---------------------------------------------------------------------- *)
(* MVulkanRenderer::CleanUp                                               *)
(* ---------------------------------------------------------------------- *)

\* vkDeviceWaitIdle at the top of CleanUp
CleanUpWaitIdle ==
  /\ pc = "cu_idle"
  /\ DeviceIdle(gpuQueue)
  /\ gpuQueue' = Observe(gpuQueue, Slots)
  /\ pc' = "cu_destroy"
  /\ UNCHANGED << createVars, uniformVars, mCurrentRenderFrame, ringVars, mIsWindowResizeDirty, swapVars, imageIndex, rcSize, winVars, call, countVars >>

\* the loop of CleanUp over the uniform buffers: it runs
\* mSwapChainImages.size() times
DestroyUniformBuffers(buffers, images) ==
  [ i \in DOMAIN buffers |->
      IF i <= Len(images) THEN "destroyed" ELSE buffers[i] ]

\* CleanupSwapChain, then the other objects: the uniform buffers, and after
\* them the ring's fences and semaphores, are destroyed here.  Destroying a
\* handle CleanupSwapChain has destroyed before, and indexing past the uniform
\* buffers, are undefined: the process can end there, before the ring is
\* reached
CleanUpDestroy ==
  /\ pc = "cu_destroy"
  /\ liveSwap' = CleanupSwapChain(liveSwap)
  /\ sUniformBufferObjects' =
       DestroyUniformBuffers(sUniformBufferObjects, mSwapChainImages)
  /\ \E ub \in UndefinedOutcomes(
                  \/ liveSwap # {"chain", "views", "framebuffers", "commands"}
                  \/ Len(mSwapChainImages) > Len(sUniformBufferObjects)) :
       /\ ringAlive' = IF ub = "crash" THEN ringAlive ELSE FALSE
       /\ pc' = IF ub = "crash" THEN "crashed" ELSE "released"
  /\ UNCHANGED << createVars, mDescriptorSets, mCurrentRenderFrame, mFencesInFlight, mSemaphoreImageAvailable,
                  mSemaphoreRenderFinished, mIsWindowResizeDirty, mSwapChain,
                  mSwapChainExtent, mSwapChainImages, mSwapChainImageViews,
                  mSwapChainFrameBuffers, mCommandBuffers,
                  gpuQueue, imageIndex, rcSize, winVars, call, countVars >>

(* ---------------------------------------------------------------------- *)
(* The GPU and the window system                                          *)
(* ---------------------------------------------------------------------- *)

\* one submission finishes executing: it has consumed the signal of its wait
\* semaphore, and signals its signal semaphore (which a queued present
\* consumes) and the fence given to vkQueueSubmit
GpuComplete ==
  /\ \E i \in Executing(gpuQueue) :
       LET s == gpuQueue[i].slot + 1
           w == gpuQueue[i].wait + 1
           r == gpuQueue[i].signal + 1
       IN  /\ gpuQueue' = [ gpuQueue EXCEPT ![i].done = TRUE ]
           /\ mFencesInFlight' = [ mFencesInFlight EXCEPT ![s] = TRUE ]
           /\ mSemaphoreImageAvailable' =
                [ mSemaphoreImageAvailable EXCEPT ![w] = "unsignaled" ]
           /\ mSemaphoreRenderFinished' =
                [ mSemaphoreRenderFinished EXCEPT ![r] =
                    IF @ = "waited" THEN "unsignaled" ELSE "signaled" ]
  /\ UNCHANGED << createVars, uniformVars, pc, mCurrentRenderFrame, ringAlive, mIsWindowResizeDirty,
                  swapVars, imageIndex, rcSize, winVars, call,
                  countVars >>

\* window events are followed as long as the renderer can still look at the
\* window: until CleanUp starts
WindowExists == pc \notin {"cu_idle", "cu_destroy", "released", "crashed"}

\* the user resizes, minimizes or restores the window: the framebuffer size
\* changes at once, the notification waits in the event queue
WindowResize ==
  /\ WindowExists
  /\ \E size \in WindowSizes \ {window} : window' = size
  /\ pending' = "resize"
  /\ UNCHANGED << createVars, uniformVars, pc, mCurrentRenderFrame, ringVars, mIsWindowResizeDirty,
                  swapVars, gpuQueue, imageIndex, rcSize, call,
                  countVars >>

\* any other window event (mouse, keyboard, focus) is queued
WindowOtherEvent ==
  /\ WindowExists
  /\ pending = "none"
  /\ pending' = "other"
  /\ UNCHANGED << createVars, uniformVars, pc, mCurrentRenderFrame, ringVars, mIsWindowResizeDirty,
                  swapVars, gpuQueue, imageIndex, rcSize,
                  window, call, countVars >>

Next ==
  \/ MainLoopPollEvents
  \/ MainLoopDrawFrame
  \/ MainLoopRelease
  \/ DrawFrameWait
  \/ DrawFrameAcquireStale
  \/ DrawFrameAcquireFatal
  \/ DrawFrameAcquireOk
  \/ DrawFrameSubmit
  \/ DrawFramePresent
  \/ DrawFrameAdvance
  \/ RecreateGetSize
  \/ RecreateWaitEvents
  \/ RecreateWaitIdle
  \/ RecreateCleanup
  \/ RecreateCreate
  \/ CleanUpWaitIdle
  \/ CleanUpDestroy
  \/ GpuComplete
  \/ WindowResize
  \/ WindowOtherEvent

Spec == Init /\ [][Next]_vars

(* ---------------------------------------------------------------------- *)
(* CreateSwapChain alone: what it asks vkCreateSwapchainKHR for, for      *)
(* every answer of QuerySwapChainSupport                                  *)
(* ---------------------------------------------------------------------- *)

\* pfInitialize has reached its call of CreateSwapChain, which has called
\* QuerySwapChainSupport: no swapchain object and no ring object exists yet
CreateSwapChainInit ==
  /\ pc = "create_swapchain"
  /\ swapChainDetails \in SupportDetails
  /\ createInfo = NoCreateInfo
  /\ mCurrentRenderFrame = 0
  /\ mFencesInFlight = << >>
  /\ mSemaphoreImageAvailable = << >>
  /\ mSemaphoreRenderFinished = << >>
  /\ ringAlive = FALSE
  /\ mIsWindowResizeDirty = FALSE
  /\ mSwapChain = 0
  /\ mSwapChainExtent = << 0, 0 >>
  /\ mSwapChainImages = << >>
  /\ mSwapChainImageViews = << >>
  /\ mSwapChainFrameBuffers = << >>
  /\ mCommandBuffers = << >>
  /\ liveSwap = {}
  /\ gpuQueue = << >>
  /\ imageIndex = 0
  /\ rcSize = << 0, 0 >>
  /\ window = swapChainDetails.framebuffer
  /\ pending = "none"
  /\ call = NewCall(0, "none")
  /\ nCalls = 0
  /\ nFrames = 0
  /\ sUniformBufferObjects = << >>
  /\ mDescriptorSets = << >>

\* CreateSwapChain up to the filling of createInfo
CreateSwapChain ==
  /\ pc = "create_swapchain"
  /\ createInfo' =
       [ filled        |-> TRUE,
         imageFormat   |-> ChoooseSwapSurfaceFormat(swapChainDetails.mFormats),
         presentMode   |-> ChooseSwapPresentMode(swapChainDetails.mPresentModes),
         imageExtent   |-> ChooseSwapResolution(swapChainDetails.mCapabilities,
                                                window),
         minImageCount |-> RequestedImageCount(swapChainDetails.mCapabilities) ]
  /\ pc' = "create_info"
  /\ UNCHANGED << mCurrentRenderFrame, ringVars, mIsWindowResizeDirty,
                  swapVars, gpuQueue, imageIndex, rcSize, winVars, call,
                  countVars, swapChainDetails, uniformVars >>

CreateSwapChainNext == CreateSwapChain

CreateSwapChainSpec == CreateSwapChainInit /\ [][CreateSwapChainNext]_vars

(* ---------------------------------------------------------------------- *)
(* CleanupSwapChain alone, one destroy call at a time                     *)
(* ---------------------------------------------------------------------- *)

\* a teardown that destroys the swapchain handle first
CleanupOrderChainFirst == << "chain", "framebuffers", "commands", "views" >>

\* the destroy calls of CleanupSwapChain on the swapchain and the objects
\* made per image, in statement order: vkDestroyFramebuffer,
\* vkFreeCommandBuffers, vkDestroyImageView, vkDestroySwapchainKHR
CleanupOrder == << "framebuffers", "commands", "views", "chain" >>

\* the position of CleanupSwapChain before its k-th destroy call
CleanupPc(k) ==
  IF k <= Len(CleanupOrder) THEN "cs_" \o CleanupOrder[k] ELSE "cs_return"

\* the swapchain objects that can be alive when CleanupSwapChain is entered:
\* all of them (from RecreateSwapChain, or from CleanUp after a session
\* without a failed recreation), or what a recreation that threw had created
\* (from CleanUp)
LiveAtCleanup ==
  { { IF st = "swapchain" THEN "chain" ELSE st : st \in StagesDone(failAt) } :
      failAt \in {"none", "swapchain", "views", "framebuffers", "commands"} }

\* CleanupSwapChain has been entered on an idle device
TeardownInit ==
  /\ pc = CleanupPc(1)
  /\ mCurrentRenderFrame \in Slots
  /\ mFencesInFlight = CreateDefaultFences
  /\ mSemaphoreImageAvailable = [ i \in 1 .. kMaxFramesInFlight |-> "unsignaled" ]
  /\ mSemaphoreRenderFinished = [ i \in 1 .. kMaxFramesInFlight |-> "unsignaled" ]
  /\ ringAlive = TRUE
  /\ mIsWindowResizeDirty \in BOOLEAN
  /\ window \in WindowSizes
  /\ pending \in {"none", "resize", "other"}
  /\ mSwapChain \in {1, 2}
  /\ mSwapChainExtent \in { e \in WindowSizes : ~ IsZeroSized(e) }
  /\ \E n \in 1 .. MaxImages :
       mSwapChainImages = GetSwapChainImageHandles(mSwapChain, n)
  /\ mSwapChainImageViews = CreateSwapChainImageViews(mSwapChainImages)
  /\ mSwapChainFrameBuffers = CreateFrameBuffer(mSwapChainImageViews)
  /\ mCommandBuffers = CreateCommandBuffers(mSwapChainFrameBuffers)
  /\ liveSwap \in LiveAtCleanup
  /\ gpuQueue = << >>
  /\ imageIndex = 0
  /\ rcSize = << 0, 0 >>
  /\ call = NewCall(mCurrentRenderFrame, "none")
  /\ nCalls = 0
  /\ nFrames = 0
  /\ swapChainDetails = NoDetails
  /\ createInfo = NoCreateInfo
  /\ sUniformBufferObjects = CreateUniformBuffers(mSwapChainImages)
  /\ mDescriptorSets = CreateDescriptorSets(mSwapChainImages)

\* the next destroy call of CleanupSwapChain
CleanupSwapChainStep ==
  /\ \E k \in DOMAIN CleanupOrder :
       /\ pc = CleanupPc(k)
       /\ liveSwap' = liveSwap \ {CleanupOrder[k]}
       /\ pc' = CleanupPc(k + 1)
  /\ UNCHANGED << createVars, uniformVars, mCurrentRenderFrame, ringVars,
                  mIsWindowResizeDirty, mSwapChain, mSwapChainExtent,
                  mSwapChainImages, mSwapChainImageViews,
                  mSwapChainFrameBuffers, mCommandBuffers, gpuQueue,
                  imageIndex, rcSize, winVars, call, countVars >>

TeardownNext == CleanupSwapChainStep

TeardownSpec == TeardownInit /\ [][TeardownNext]_vars

(* ---------------------------------------------------------------------- *)
(* A session without staleness: every acquire succeeds, the window is     *)
(* left alone, every submission is accepted                               *)
(* ---------------------------------------------------------------------- *)

\* vkQueueSubmit returns VK_SUCCESS
DrawFrameSubmitAccepted == DrawFrameSubmit /\ pc' = "df_present"

\* the steps of the CPU thread in such a session
CleanStep ==
  \/ MainLoopDrawFrame
  \/ DrawFrameWait
  \/ DrawFrameAcquireOk
  \/ DrawFrameSubmitAccepted
  \/ DrawFramePresent
  \/ DrawFrameAdvance

CleanNext ==
  \/ MainLoopDrawFrame
  \/ DrawFrameWait
  \/ DrawFrameAcquireOk
  \/ DrawFrameSubmitAccepted
  \/ DrawFramePresent
  \/ DrawFrameAdvance
  \/ GpuComplete

\* the CPU thread keeps running and the GPU finishes what it was given
FairSpec ==
  /\ Init
  /\ [][CleanNext]_vars
  /\ WF_vars(CleanStep)
  /\ WF_vars(GpuComplete)

\* the steps of one RecreateSwapChain call
RecreateStep ==
  \/ RecreateGetSize
  \/ RecreateWaitEvents
  \/ RecreateWaitIdle
  \/ RecreateCleanup
  \/ RecreateCreate

RecreatePcs == {"rc_size", "rc_events", "rc_idle", "rc_cleanup", "rc_create"}

DrawFramePcs ==
  {"df_wait", "df_acquire", "df_submit", "df_present", "df_advance"}

AllSwap == {"chain", "views", "framebuffers", "commands"}

Range(seq) == { seq[i] : i \in DOMAIN seq }

\* the executing submissions of one slot
ExecutingOn(slot) == { i \in Executing(gpuQueue) : gpuQueue[i].slot = slot }

\* the acquire of the current call has returned
Acquired == call.result # "NONE"

(* ---------------------------------------------------------------------- *)
(* Properties                                                             *)
(* ---------------------------------------------------------------------- *)

\* C1: currentFrame is always in [0, kMaxFramesInFlight), and after N
\* DrawFrame calls that each completed a full frame it equals
\* N mod kMaxFramesInFlight, whatever image each call acquired.
C1_SlotIndex ==
  /\ mCurrentRenderFrame \in Slots
  /\ (pc = "idle" /\ nFrames = nCalls) =>
       mCurrentRenderFrame = nCalls % kMaxFramesInFlight

\* MaxCalls full frames in a row have been drawn: the index has wrapped
C1_Witness ==
  /\ pc = "idle"
  /\ nCalls = MaxCalls
  /\ nFrames = nCalls
  /\ nCalls > kMaxFramesInFlight

\* C2: the graphics submissions whose completion the CPU has not observed
\* never number more than kMaxFramesInFlight, for every image count.
C2_InFlightBound == Len(gpuQueue) <= kMaxFramesInFlight

\* the bound is met after more submissions than slots, on a chain with fewer
\* images than slots
C2_Witness ==
  /\ Len(gpuQueue) = kMaxFramesInFlight
  /\ nFrames > kMaxFramesInFlight
  /\ Len(mSwapChainImages) < kMaxFramesInFlight

\* C3: no slot's image-available semaphore, render-finished semaphore or
\* fence is used by a new submission while the slot's previous submission is
\* outstanding: a slot has at most one executing submission, none while its
\* fence is signaled, and none between the fence wait and the submit of the
\* call that uses the slot.
C3_NoSlotReuse ==
  /\ \A s \in Slots :
       /\ Cardinality(ExecutingOn(s)) <= 1
       /\ mFencesInFlight[s + 1] => ExecutingOn(s) = {}
  /\ pc \in {"df_acquire", "df_submit"} => ExecutingOn(mCurrentRenderFrame) = {}

\* a slot is in use for the second time while the other slot's submission
\* still executes
C3_Witness ==
  /\ pc = "df_present"
  /\ nFrames >= kMaxFramesInFlight
  /\ \A s \in Slots : ExecutingOn(s) # {}

\* C4: when the acquire reports out-of-date or suboptimal, or the resize
\* flag is set at that point, the call takes the recreate path: it submits and
\* presents nothing for that slot and leaves currentFrame as it was on entry.
C4_StaleAbort ==
  (Acquired /\ (call.result \in {"OUT_OF_DATE", "SUBOPTIMAL"} \/ call.dirty)) =>
     /\ call.stale
     /\ pc \notin {"df_submit", "df_present", "df_advance"}
     /\ ~ call.submitted
     /\ ExecutingOn(call.entry) = {}
     /\ mCurrentRenderFrame = call.entry

\* a call that acquired a suboptimal image has rebuilt the chain and is about
\* to return, after an earlier full frame
C4_Witness ==
  /\ pc = "rc_create"
  /\ call.stale
  /\ call.result = "SUBOPTIMAL"
  /\ nFrames >= 1

\* the current call aborted for an out-of-date acquire alone, the window is
\* visible and no resize notification is there
OodAlone ==
  /\ pc \in RecreatePcs
  /\ call.result = "OUT_OF_DATE"
  /\ ~ call.dirty
  /\ ~ IsZeroSized(window)
  /\ pending # "resize"
  /\ ~ mIsWindowResizeDirty

\* C5: after one out-of-date acquire, with a visible window and no resize
\* notification, the aborting call recreates once and returns without needing
\* anything from the window system, and the next call, whose acquire succeeds,
\* completes a full frame without recreating.
C5_OodRecovers ==
  /\ OodAlone => ENABLED (RecreateStep \/ GpuComplete)
  /\ (call.prev = "ood" /\ call.result = "SUCCESS" /\ ~ call.dirty) =>
       ~ call.stale

\* C6: RecreateSwapChain never creates a swapchain whose width or height is
\* zero, for every interleaving of window events with its steps.
C6_NoZeroExtent ==
  /\ "chain" \in liveSwap => ~ IsZeroSized(mSwapChainExtent)
  /\ call.createExtent # << >> => ~ IsZeroSized(call.createExtent)

\* C7: RecreateSwapChain and CleanUp destroy only after the device is idle:
\* an executing submission finds every object it references alive, nothing
\* executes at the destroy steps, and the old chain is completely gone before
\* the creation of the new one begins.
C7_DrainBeforeDestroy ==
  /\ Executing(gpuQueue) # {} =>
       /\ liveSwap = AllSwap
       /\ \A i \in Executing(gpuQueue) :
            gpuQueue[i].target \in Range(mSwapChainImages)
  /\ pc \in {"rc_cleanup", "cu_destroy"} => Executing(gpuQueue) = {}
  /\ pc = "rc_create" => liveSwap = {}

\* the old chain has been destroyed in a session that had submitted frames
C7_Witness ==
  /\ pc = "rc_create"
  /\ liveSwap = {}
  /\ nFrames >= kMaxFramesInFlight

\* a CPU step of RecreateSwapChain leaves the ring and the slot index alone
RecreateKeepsRing ==
  (pc \in RecreatePcs /\ pc' # pc) =>
     /\ ringVars' = ringVars
     /\ mCurrentRenderFrame' = mCurrentRenderFrame

\* the ring holds kMaxFramesInFlight live objects of each kind
RingComplete ==
  /\ ringAlive
  /\ Len(mFencesInFlight) = kMaxFramesInFlight
  /\ Len(mSemaphoreImageAvailable) = kMaxFramesInFlight
  /\ Len(mSemaphoreRenderFinished) = kMaxFramesInFlight

\* C8: RecreateSwapChain does not destroy, recreate, reset or resize the ring
\* and does not change currentFrame; the ring holds exactly kMaxFramesInFlight
\* of each object from initialization until shutdown, whatever the image count.
C8_RingUntouched ==
  /\ [](pc # "released" => RingComplete)
  /\ [][RecreateKeepsRing]_vars

\* a recreation has returned with a chain of MaxImages images, after an
\* earlier full frame
C8_Witness ==
  /\ pc = "idle"
  /\ call.prev \in {"ood", "stale"}
  /\ Len(mSwapChainImages) = MaxImages
  /\ nFrames >= 1

\* C9: after initialization and after every recreation the numbers of
\* images, views, framebuffers and command recordings are equal, and entry i
\* of each belongs to image i.
C9_FrameResourcesAligned ==
  pc \in DrawFramePcs \cup {"idle"} =>
    /\ liveSwap = AllSwap
    /\ Len(mSwapChainImageViews) = Len(mSwapChainImages)
    /\ Len(mSwapChainFrameBuffers) = Len(mSwapChainImages)
    /\ Len(mCommandBuffers) = Len(mSwapChainImages)
    /\ \A i \in DOMAIN mSwapChainImages :
         /\ mSwapChainImages[i] = << mSwapChain, i >>
         /\ mSwapChainImageViews[i] = mSwapChainImages[i]
         /\ mSwapChainFrameBuffers[i] = mSwapChainImages[i]
         /\ mCommandBuffers[i] = mSwapChainImages[i]

\* a recreation has returned with a new chain of more than one image
C9_Witness ==
  /\ pc = "idle"
  /\ call.prev = "ood"
  /\ mSwapChain # 1
  /\ Len(mSwapChainImages) > 1

\* C10: every acquire result other than success, out-of-date and suboptimal
\* makes DrawFrame throw, with no recreation, no submission, no present and no
\* slot advance, whether or not the resize flag is set.
C10_AcquireErrorFatal ==
  (Acquired /\ call.result = "ERROR") =>
     /\ ~ call.stale
     /\ pc \in {"fatal", "cu_idle", "cu_destroy", "released"}
     /\ ~ call.submitted
     /\ mCurrentRenderFrame = call.entry

\* positions after an exception has left DrawFrame, and during shutdown
\* (which ends in "released", or in "crashed" when CleanUp ends the process)
FatalPcs == {"fatal", "cu_idle", "cu_destroy", "released", "crashed"}

\* the current call acquired an image with no stale condition and its
\* submission was rejected by vkQueueSubmit
SubmitRejected ==
  /\ Acquired
  /\ call.result = "SUCCESS"
  /\ ~ call.stale
  /\ ~ call.submitted
  /\ pc # "df_submit"

\* C11: when the graphics queue rejects the submission, DrawFrame raises a
\* fatal error to its caller: nothing was queued for the slot, no present is
\* issued and the slot index is not advanced.
C11_SubmitFailureFatal ==
  SubmitRejected =>
    /\ pc \in FatalPcs
    /\ call.present = "NONE"
    /\ mSemaphoreRenderFinished[call.entry + 1] = "unsignaled"
    /\ ExecutingOn(call.entry) = {}
    /\ mCurrentRenderFrame = call.entry

\* a submission has been rejected after an earlier full frame
C11_Witness ==
  /\ pc = "fatal"
  /\ SubmitRejected
  /\ nFrames >= 1

\* the step that follows vkQueuePresentKHR is the slot advance and the normal
\* return, with the swapchain and the dirty flag left as they are
PresentThenAdvance ==
  (pc = "df_advance" /\ pc' # pc) =>
     /\ pc' = "idle"
     /\ mCurrentRenderFrame' = (mCurrentRenderFrame + 1) % kMaxFramesInFlight
     /\ nFrames' = nFrames + 1
     /\ swapVars' = swapVars
     /\ mIsWindowResizeDirty' = mIsWindowResizeDirty

\* C12: a failing present never makes DrawFrame raise an error or recreate
\* the swapchain: whatever vkQueuePresentKHR returned, the call advances
\* currentFrame and returns normally; staleness is left to a later acquire.
C12_PresentFailureIgnored ==
  /\ [](pc = "df_advance" => (call.submitted /\ ~ call.stale /\ call.recreated = 0))
  /\ [][PresentThenAdvance]_vars

\* a call whose present returned an error has returned normally, and the next
\* call has been made and found the chain out of date at its acquire
C12_Witness ==
  /\ pc = "rc_size"
  /\ call.prev = "unpresented"
  /\ call.result = "OUT_OF_DATE"

\* C13: a creation failure inside RecreateSwapChain leaves DrawFrame as a
\* fatal error: the recreation is not retried and the frame is not continued.
C13_CreateFailureFatal ==
  call.recreated >= 1 =>
    /\ pc \in FatalPcs
    /\ call.recreated = 1
    /\ call.stale
    /\ ~ call.submitted
    /\ call.present = "NONE"
    /\ mCurrentRenderFrame = call.entry

\* the swapchain was created and a later creation step failed
C13_Witness ==
  /\ pc = "fatal"
  /\ call.recreated = 1
  /\ "chain" \in liveSwap
  /\ "framebuffers" \notin liveSwap

\* C14: the fences are created signaled, so in a session without staleness
\* and with a GPU that finishes every submission every DrawFrame call
\* terminates: the first kMaxFramesInFlight calls find their fence signaled
\* with no submission to wait for, and kMaxFramesInFlight + 1 consecutive
\* calls each complete a full frame with no recreation.
C14_FreshFramesTerminate ==
  /\ [](pc = "df_wait" /\ nCalls <= kMaxFramesInFlight =>
          /\ mFencesInFlight[mCurrentRenderFrame + 1] = TRUE
          /\ ExecutingOn(mCurrentRenderFrame) = {})
  /\ [](~ call.stale /\ mSwapChain = 1)
  /\ (pc \in DrawFramePcs) ~> (pc = "idle")
  /\ <>(pc = "idle" /\ nCalls = kMaxFramesInFlight + 1 /\ nFrames = nCalls)

\* kMaxFramesInFlight + 1 frames were drawn on the first swapchain and the GPU
\* has finished them all
C14_Witness ==
  /\ pc = "idle"
  /\ nFrames = kMaxFramesInFlight + 1
  /\ nCalls = nFrames
  /\ mSwapChain = 1
  /\ gpuQueue # << >>
  /\ Executing(gpuQueue) = {}

\* the report has a definite current extent
Definite(caps) == caps.currentExtent[1] # NumericalMaxTU32

\* C15: for every list of supported presentation modes, in whatever order,
\* ChooseSwapPresentMode returns MAILBOX if the list contains it, otherwise
\* IMMEDIATE if the list contains it, otherwise FIFO.
C15_PresentModePreference ==
  createInfo.filled =>
    LET modes == Range(swapChainDetails.mPresentModes)
    IN  createInfo.presentMode =
          IF "MAILBOX" \in modes THEN "MAILBOX"
          ELSE IF "IMMEDIATE" \in modes THEN "IMMEDIATE"
          ELSE "FIFO"

\* C16: for every non-empty list of surface formats ChoooseSwapSurfaceFormat
\* returns the B8G8R8A8_UNORM / SRGB_NONLINEAR pair when the list is a single
\* UNDEFINED entry or contains that pair at any position, and the first
\* entry of the list otherwise.
C16_SurfaceFormatChoice ==
  createInfo.filled =>
    LET list == swapChainDetails.mFormats
        soleUndefined == Len(list) = 1 /\ list[1].format = "UNDEFINED"
        hasPreferred == PreferredSurfaceFormat \in Range(list)
    IN  /\ (soleUndefined \/ hasPreferred) =>
             createInfo.imageFormat = PreferredSurfaceFormat
        /\ ~ (soleUndefined \/ hasPreferred) =>
             createInfo.imageFormat = list[1]

\* the preferred pair was found behind another entry
C16_Witness ==
  /\ createInfo.filled
  /\ Len(swapChainDetails.mFormats) = 2
  /\ swapChainDetails.mFormats[1] # PreferredSurfaceFormat
  /\ swapChainDetails.mFormats[2] = PreferredSurfaceFormat
  /\ createInfo.imageFormat = PreferredSurfaceFormat

\* C17: ChooseSwapResolution returns the current extent unchanged when it is
\* definite, and otherwise the window's framebuffer size with width and
\* height each brought into [minImageExtent, maxImageExtent].
C17_ResolutionChoice ==
  createInfo.filled =>
    LET caps == swapChainDetails.mCapabilities
        fb == swapChainDetails.framebuffer
        e == createInfo.imageExtent
    IN  /\ Definite(caps) => e = caps.currentExtent
        /\ ~ Definite(caps) =>
             \A k \in 1 .. 2 :
               e[k] = IF fb[k] < caps.minImageExtent[k]
                      THEN caps.minImageExtent[k]
                      ELSE IF fb[k] > caps.maxImageExtent[k]
                           THEN caps.maxImageExtent[k]
                           ELSE fb[k]

\* with the sentinel reported, a minimized window was raised to the minimum
C17_Witness ==
  /\ createInfo.filled
  /\ ~ Definite(swapChainDetails.mCapabilities)
  /\ swapChainDetails.framebuffer[1] <
       swapChainDetails.mCapabilities.minImageExtent[1]
  /\ createInfo.imageExtent = swapChainDetails.mCapabilities.minImageExtent

\* C18: the resolution CreateSwapChain asks for lies between minImageExtent
\* and maxImageExtent in width and in height, for every capability report,
\* with a definite current extent or with the sentinel.
C18_ResolutionInRange ==
  createInfo.filled =>
    LET caps == swapChainDetails.mCapabilities
        e == createInfo.imageExtent
    IN  \A k \in 1 .. 2 :
          /\ caps.minImageExtent[k] <= e[k]
          /\ e[k] <= caps.maxImageExtent[k]

\* a definite current extent strictly above the minimum was taken although
\* the window has another size
C18_Witness ==
  /\ createInfo.filled
  /\ Definite(swapChainDetails.mCapabilities)
  /\ swapChainDetails.mCapabilities.minImageExtent[1] <
       swapChainDetails.mCapabilities.currentExtent[1]
  /\ swapChainDetails.framebuffer # swapChainDetails.mCapabilities.currentExtent
  /\ createInfo.imageExtent = swapChainDetails.mCapabilities.currentExtent

\* C19: the requested image count is minImageCount + 1 when maxImageCount
\* is 0, and otherwise minImageCount + 1 brought into
\* [minImageCount, maxImageCount].
C19_ImageCount ==
  createInfo.filled =>
    LET caps == swapChainDetails.mCapabilities
        n == createInfo.minImageCount
    IN  /\ caps.maxImageCount = 0 => n = caps.minImageCount + 1
        /\ caps.maxImageCount > 0 =>
             /\ caps.minImageCount <= n
             /\ n <= caps.maxImageCount
             /\ n = IF caps.minImageCount + 1 > caps.maxImageCount
                    THEN caps.maxImageCount
                    ELSE caps.minImageCount + 1

\* minimum 2 and no maximum give 3
C19_Witness ==
  /\ createInfo.filled
  /\ swapChainDetails.mCapabilities.minImageCount = 2
  /\ swapChainDetails.mCapabilities.maxImageCount = 0
  /\ createInfo.minImageCount = 3

\* the delivery of a resize notification sets the dirty flag
DeliverySetsFlag ==
  (pending = "resize" /\ pending' = "none") => mIsWindowResizeDirty'

\* a call that finds the flag set at its acquire enters the recreation, and
\* clears the flag as it does
FlagForcesRecreate ==
  (pc = "df_acquire" /\ pc' # pc /\ mIsWindowResizeDirty) =>
     (pc' = "rc_size" /\ ~ mIsWindowResizeDirty')

\* the flag is cleared nowhere else
FlagClearedOnlyThere ==
  (mIsWindowResizeDirty /\ ~ mIsWindowResizeDirty') =>
     (pc = "df_acquire" /\ pc' = "rc_size")

\* C20: every resize notification, delivered between frames or while
\* RecreateSwapChain waits on window events, sets the dirty flag and makes the
\* next DrawFrame call recreate and abort; the flag is cleared when that
\* recreation starts and nowhere else, so no frame is drawn on a swapchain
\* created before a delivered notification.
C20_ResizeNotification ==
  /\ [][DeliverySetsFlag]_vars
  /\ [][FlagForcesRecreate]_vars
  /\ [][FlagClearedOnlyThere]_vars
  /\ [](pc \in {"df_submit", "df_present", "df_advance"} =>
          (~ mIsWindowResizeDirty /\ ~ call.dirty))

\* a notification was delivered during or after a recreation, and the next
\* call, whose acquire succeeded, recreates again because of the flag
C20_Witness ==
  /\ pc = "rc_size"
  /\ call.prev \in {"ood", "stale"}
  /\ call.dirty
  /\ call.result = "SUCCESS"

\* the wait of a present request is satisfied only by the completion of the
\* slot's submission, or finds it completed
PresentAfterRender ==
  \A s \in Slots :
    (mSemaphoreRenderFinished[s + 1] # "unsignaled"
       /\ mSemaphoreRenderFinished'[s + 1] = "unsignaled") =>
      { i \in DOMAIN gpuQueue' :
          gpuQueue'[i].slot = s /\ ~ gpuQueue'[i].done } = {}

\* C21: in every completed frame the submission executes the recording of
\* the acquired image index, waits on the slot's imageAvailable semaphore at
\* the color attachment output stage and signals the slot's renderFinished
\* semaphore and fence; the present names the same image index and waits on
\* the slot's renderFinished, so that it never starts before the rendering
\* into the image has completed.
C21_RenderBeforePresent ==
  /\ [](\A i \in DOMAIN gpuQueue :
          /\ gpuQueue[i].wait = gpuQueue[i].slot
          /\ gpuQueue[i].signal = gpuQueue[i].slot
          /\ gpuQueue[i].waitStage = "COLOR_ATTACHMENT_OUTPUT"
          /\ ~ gpuQueue[i].done =>
                gpuQueue[i].target = mSwapChainImages[gpuQueue[i].image + 1])
  /\ [](pc = "df_advance" =>
          /\ call.presentImage = imageIndex
          /\ call.presentWait = mCurrentRenderFrame
          /\ gpuQueue # << >>
          /\ gpuQueue[Len(gpuQueue)].slot = call.presentWait
          /\ gpuQueue[Len(gpuQueue)].image = call.presentImage
          /\ ~ gpuQueue[Len(gpuQueue)].done =>
                mSemaphoreRenderFinished[call.presentWait + 1] = "waited")
  /\ [](\A s \in Slots :
          ExecutingOn(s) # {} =>
            mSemaphoreRenderFinished[s + 1] \in {"unsignaled", "waited"})
  /\ [][PresentAfterRender]_vars

\* a present of an image other than the first is queued behind a rendering
\* that still executes, after an earlier full frame
C21_Witness ==
  /\ pc = "df_advance"
  /\ call.presentImage > 0
  /\ ExecutingOn(mCurrentRenderFrame) # {}
  /\ mSemaphoreRenderFinished[mCurrentRenderFrame + 1] = "waited"
  /\ nFrames >= 1

\* C22: when the framebuffer of the window is non-zero in both dimensions on
\* entry to RecreateSwapChain, the recreation goes on without any window
\* event: at every position of a recreation that has read a non-zero size a
\* step of the recreation, or of the GPU it waits for, is possible.
C22_VisibleWindowNoWait ==
  (pc \in RecreatePcs /\ ~ IsZeroSized(rcSize)) =>
     ENABLED (RecreateStep \/ GpuComplete)

\* C23: a call aborted by the stale path leaves the fence of its slot
\* signaled, so the next call, which uses the same slot, passes
\* vkWaitForFences.
C23_StaleLeavesFenceSignaled ==
  /\ (call.stale /\ pc \in RecreatePcs \cup {"fatal"}) =>
        /\ mCurrentRenderFrame = call.entry
        /\ FenceReady(mFencesInFlight, call.entry)
  /\ (call.prev \in {"ood", "stale"} /\ pc \in {"idle", "df_wait"}) =>
        /\ mCurrentRenderFrame = call.entry
        /\ FenceReady(mFencesInFlight, mCurrentRenderFrame)
  /\ (call.prev \in {"ood", "stale"} /\ pc = "df_wait") => ENABLED DrawFrameWait

\* after a full frame, the call on the next slot was aborted for a
\* suboptimal acquire, and the call that follows it stands at vkWaitForFences
\* on that same slot
C23_Witness ==
  /\ pc = "df_wait"
  /\ call.prev = "stale"
  /\ nFrames >= 1
  /\ mCurrentRenderFrame = 1
  /\ mSemaphoreImageAvailable[mCurrentRenderFrame + 1] = "signaled"

\* C24: each signal of an imageAvailable semaphore raised by an acquire is
\* waited on by one submission before the semaphore is handed to another
\* acquire: at every vkAcquireNextImageKHR the semaphore of the slot holds no
\* signal, also after frames aborted with an acquired image.
C24_SignalWaitedBeforeReuse ==
  pc = "df_acquire" =>
    mSemaphoreImageAvailable[mCurrentRenderFrame + 1] = "unsignaled"

\* C25: DrawFrame never writes the uniform buffer of an image while an
\* earlier submission that reads that uniform buffer still executes, for
\* every order of the acquired image indices and every image count.
C25_NoUniformWriteWhileRead ==
  (pc = "df_submit" /\ call.uniformWritten # -1) =>
    \A i \in Executing(gpuQueue) :
      UniformBufferRead(gpuQueue[i]) # call.uniformWritten

\* C26: after every recreation each image index of the new swapchain has
\* its own uniform buffer and descriptor set: their numbers equal the image
\* count, also when it differs from the one at startup.
C26_UniformPerImage ==
  pc \in DrawFramePcs \cup {"idle"} =>
    /\ Len(sUniformBufferObjects) = Len(mSwapChainImages)
    /\ Len(mDescriptorSets) = Len(mSwapChainImages)

\* C27: at every return from DrawFrame, normal or by exception, a fence is
\* unsignaled only if exactly one submission that will signal it executes.
C27_ResetHasSubmission ==
  pc \in {"idle", "fatal"} =>
    \A s \in Slots :
      ~ mFencesInFlight[s + 1] => Cardinality(ExecutingOn(s)) = 1

\* C28: every resource the renderer creates is destroyed exactly once by the
\* end of the session and never destroyed again: each run of
\* CleanupSwapChain finds the objects it destroys alive, and a session that
\* was released has destroyed the swapchain objects, the uniform buffers
\* and the ring, also after a creation step of a recreation failed.
C28_DestroyedExactlyOnce ==
  /\ pc \in {"rc_cleanup", "cu_destroy"} => liveSwap = AllSwap
  /\ pc = "released" =>
        /\ liveSwap = {}
        /\ ~ ringAlive
        /\ \A i \in DOMAIN sUniformBufferObjects :
              sUniformBufferObjects[i] = "destroyed"

\* the statement order of RecreateSwapChain, as changes of position
RecreateOrder ==
  { << "rc_size", "rc_events" >>, << "rc_events", "rc_size" >>,
    << "rc_events", "rc_idle" >>, << "rc_idle", "rc_cleanup" >>,
    << "rc_cleanup", "rc_create" >>, << "rc_create", "idle" >>,
    << "rc_create", "fatal" >>, << "rc_create", "crashed" >> }

\* a step of the recreation follows the order, leaves the size loop only with
\* a non-zero size read, and enters the recreation with the flag just cleared
RecreateOrderStep ==
  /\ (pc \in RecreatePcs /\ pc' # pc) =>
        /\ << pc, pc' >> \in RecreateOrder
        /\ pc' = "rc_idle" => ~ IsZeroSized(rcSize)
        /\ (pc = "rc_events" /\ pc' = "rc_size") => IsZeroSized(rcSize)
  /\ (pc \notin RecreatePcs /\ pc' \in RecreatePcs) =>
        /\ pc = "df_acquire"
        /\ pc' = "rc_size"
        /\ ~ mIsWindowResizeDirty'
        /\ liveSwap' = AllSwap

\* C29 as stated: RecreateSwapChain clears the resize flag, drains the
\* device, destroys the frame resources and the swapchain, then waits while
\* the window is zero-sized, and only then recreates: whenever it reads the
\* window size or waits for window events, the old swapchain objects have
\* been destroyed.
C29_DestroyBeforeWindowWait ==
  pc \in {"rc_size", "rc_events"} => liveSwap = {}

\* C29, amended: RecreateSwapChain performs its steps in this order: the
\* resize flag is cleared, then the window size is read and window events
\* are waited for, again while the size read is zero, then the device is
\* drained, then the frame resources and the swapchain are destroyed, and
\* only then the swapchain, the frame resources and the recordings are
\* created again.
C29_RecreateOrder ==
  /\ [][RecreateOrderStep]_vars
  /\ [](pc \in {"rc_size", "rc_events", "rc_idle", "rc_cleanup"} =>
          liveSwap = AllSwap)
  /\ [](pc = "rc_cleanup" => (DeviceIdle(gpuQueue) /\ ~ IsZeroSized(rcSize)))
  /\ [](pc = "rc_create" => (liveSwap = {} /\ ~ IsZeroSized(rcSize)))

\* the size loop has ended on a non-zero size and the recreation stands at
\* vkDeviceWaitIdle while a submission still executes and all swapchain
\* objects are alive
C29_Witness ==
  /\ pc = "rc_idle"
  /\ ~ IsZeroSized(rcSize)
  /\ Executing(gpuQueue) # {}
  /\ liveSwap = AllSwap

\* a destroy of the image views leaves no framebuffer or recording behind,
\* a destroy of the swapchain handle no image view either
DestroyRespectsDependants ==
  /\ ("views" \in liveSwap /\ "views" \notin liveSwap') =>
        liveSwap' \cap {"framebuffers", "commands"} = {}
  /\ ("chain" \in liveSwap /\ "chain" \notin liveSwap') =>
        liveSwap' \cap {"framebuffers", "commands", "views"} = {}

\* C30: CleanupSwapChain destroys the framebuffers and the command
\* recordings first, then the image views, and only then the swapchain
\* handle: the handle is never destroyed while an image view of it or a
\* framebuffer wrapping one still exists.
C30_TeardownOrder ==
  /\ [][DestroyRespectsDependants]_vars
  /\ []("framebuffers" \in liveSwap => "views" \in liveSwap)
  /\ []("views" \in liveSwap => "chain" \in liveSwap)
  /\ [](pc = "cs_views" => liveSwap \cap {"framebuffers", "commands"} = {})
  /\ [](pc = "cs_chain" =>
          liveSwap \cap {"framebuffers", "commands", "views"} = {})
  /\ [](pc = "cs_return" => liveSwap = {})

\* a complete swapchain of MaxImages images has lost its framebuffers,
\* recordings and views, and the handle is the next to go
C30_Witness ==
  /\ pc = "cs_chain"
  /\ liveSwap = {"chain"}
  /\ Len(mSwapChainImages) = MaxImages

====
